---- MODULE Spec2Model ----
(***************************************************************************)
(* rnabam2cov: strand-specific coverage tracks from an alignment file.     *)
(*                                                                         *)
(* The model follows src/src/rnabam2cov/{strandedness,coverage,cli}.py.    *)
(* Four specifications share the variables:                                *)
(*   SpecPolicy    calls get_strand_mapping / get_output_prefixes on a     *)
(*                 label and a base prefix;                                *)
(*   SpecBedgraph  calls get_stranded_bedgraph directly on an alignment    *)
(*                 file (as tests/test_coverage.py does);                  *)
(*   Spec          runs rnabam2cov: validate_parameters, then one          *)
(*                 get_stranded_coverage pass per requested strand;        *)
(*   SpecMain      runs main(): parse_args on a command line, rnabam2cov,  *)
(*                 then the exit of the process.                           *)
(*                                                                         *)
(* Text whose characters matter (the library type label, which the code    *)
(* lower-cases) is a sequence of one-character strings; other text is a    *)
(* TLA+ string.  An alignment file is the sequence of its records, each a  *)
(* span [start, end) on one chromosome with the strand it aligned to; each *)
(* record counts once.                                                     *)
(***************************************************************************)
EXTENDS Integers, Sequences, FiniteSets, TLC

VARIABLES
    bam_exists,     \* Path(bam_path).exists()
    bam,            \* the records of the alignment file
    libtype,        \* argument: library type label (characters)
    output_prefix,  \* argument: base output prefix
    strands,        \* argument: list of requested aligned strands
    bg, bga,        \* arguments
    five_prime, three_prime,
    max_depth,      \* argument: None or an integer
    scale,          \* argument
    step,           \* position of the running call
    strand,         \* the strand argument / loop variable of the running call
    output_files,   \* rnabam2cov's list of produced paths
    calls,          \* log of the passes: one Call per get_stranded_coverage call
    disk,           \* path -> content of the file (Absent when there is none)
    error,          \* the exception that ended the call, NoError otherwise
    returned,       \* the value the call returned (NotReturned before and on failure)
    first_output,   \* the file written by the first completed direct call
    reordered,      \* the records were reordered since that call
    argv,           \* the command line of the process (main)
    exit_code,      \* the exit code of the process, None while it runs
    stderr          \* what the process wrote to the error stream

inputs == <<bam_exists, bam, libtype, output_prefix, strands, bg, bga,
            five_prime, three_prime, max_depth, scale>>
vars == <<bam_exists, bam, libtype, output_prefix, strands, bg, bga,
          five_prime, three_prime, max_depth, scale, step, strand,
          output_files, calls, disk, error, returned, first_output, reordered,
          argv, exit_code, stderr>>
process == <<argv, exit_code, stderr>>

\* An optional integer is None or Some(n).
None == <<>>
Some(n) == <<n>>
Absent == "absent"
NoError == [exc |-> "none", what |-> "none", value |-> ""]
Raise(exc, what, value) == [exc |-> exc, what |-> what, value |-> value]
\* A command line, by the options given on it: input and output_prefix tell
\* whether -i and -o are given, libtype, strand and max_depth are None or
\* hold the value given, the other fields tell whether the flag is given.
Argv(input, lt, prefix, strand_, bg_, bga_, max_depth_, five_, three_) == [input |-> input, libtype |-> lt, output_prefix |-> prefix, strand |-> strand_, bg |-> bg_, bga |-> bga_, max_depth |-> max_depth_, five_prime |-> five_, three_prime |-> three_]
\* The command line with no argument; also the value of argv where the
\* functions are called directly.
NoArgv == Argv(FALSE, None, FALSE, None, FALSE, FALSE, None, FALSE, FALSE)
NotReturned == [done |-> FALSE, value |-> <<>>]
Returned(v) == [done |-> TRUE, value |-> v]

(***************************************************************************)
(* Bounds of the model.                                                    *)
(***************************************************************************)
MaxStrands == 3     \* longest requested strand list
MaxSpans == 3       \* most records in an alignment file
MaxCoord == 3       \* largest coordinate of a record
MaxDepthArg == 2    \* largest max_depth argument
MaxScale == 2       \* largest scale argument

(***************************************************************************)
(* Text helpers: str.lower() and f-string formatting of a label.           *)
(***************************************************************************)
UpperLetters == <<"A","B","C","D","E","F","G","H","I","J","K","L","M",
                  "N","O","P","Q","R","S","T","U","V","W","X","Y","Z">>
LowerLetters == <<"a","b","c","d","e","f","g","h","i","j","k","l","m",
                  "n","o","p","q","r","s","t","u","v","w","x","y","z">>

lower_char(c) ==
    IF \E k \in DOMAIN UpperLetters : UpperLetters[k] = c
    THEN LowerLetters[CHOOSE k \in DOMAIN UpperLetters : UpperLetters[k] = c]
    ELSE c

lower(s) == [k \in 1..Len(s) |-> lower_char(s[k])]

upper_char(c) ==
    IF \E k \in DOMAIN LowerLetters : LowerLetters[k] = c
    THEN UpperLetters[CHOOSE k \in DOMAIN LowerLetters : LowerLetters[k] = c]
    ELSE c

RECURSIVE format(_)
format(s) == IF s = <<>> THEN "" ELSE s[1] \o format(Tail(s))

(***************************************************************************)
(* strandedness.py                                                         *)
(***************************************************************************)
FORWARD == <<"f","o","r","w","a","r","d">>
REVERSE == <<"r","e","v","e","r","s","e">>
LibraryType == {FORWARD, REVERSE}

Ok(v) == [raised |-> FALSE, value |-> v]
Failed(e) == [raised |-> TRUE, error |-> e]

\* get_strand_mapping with the label looked up as given, not lower-cased.
get_strand_mapping_no_lower(lib_type) ==
    IF lib_type \notin LibraryType
    THEN Failed(Raise("ValueError", "LibraryType", format(lib_type)))
    ELSE IF lib_type = FORWARD
         THEN Ok([g \in {"+", "-"} |-> g])
         ELSE Ok([g \in {"+", "-"} |-> IF g = "+" THEN "-" ELSE "+"])

get_strand_mapping(lib_type) ==
    LET lt == lower(lib_type) IN
    IF lt \notin LibraryType
    THEN Failed(Raise("ValueError", "LibraryType", format(lt)))
    ELSE IF lt = FORWARD
         THEN Ok([g \in {"+", "-"} |-> g])
         ELSE IF lt = REVERSE
              THEN Ok([g \in {"+", "-"} |-> IF g = "+" THEN "-" ELSE "+"])
              ELSE Failed(Raise("ValueError", "Unknown library type", format(lt)))

\* get_output_prefixes with the two suffixes exchanged.
get_output_prefixes_swapped(base_prefix, lib_type) ==
    LET sm == get_strand_mapping(lib_type) IN
    IF sm.raised THEN sm
    ELSE Ok([g \in DOMAIN sm.value |->
                IF sm.value[g] = "+" THEN base_prefix \o ".minus"
                                     ELSE base_prefix \o ".plus"])

\* get_output_prefixes giving every strand the .plus suffix.
get_output_prefixes_same(base_prefix, lib_type) ==
    LET sm == get_strand_mapping(lib_type) IN
    IF sm.raised THEN sm
    ELSE Ok([g \in DOMAIN sm.value |-> base_prefix \o ".plus"])

get_output_prefixes(base_prefix, lib_type) ==
    LET strand_mapping == get_strand_mapping(lib_type) IN
    IF strand_mapping.raised THEN strand_mapping
    ELSE Ok([genomic_strand \in DOMAIN strand_mapping.value |->
                IF strand_mapping.value[genomic_strand] = "+"
                THEN base_prefix \o ".plus"
                ELSE base_prefix \o ".minus"])

(***************************************************************************)
(* coverage.py: the file system and the options handed to the engine.      *)
(***************************************************************************)
BEDGRAPH == "bedgraph"

get_file_extension(file_type) == file_type

\* A file: absent, complete (holding the runs written), partial (a write
\* that failed part-way) or stale (left by an earlier invocation).
File(state, runs) == [state |-> state, runs |-> runs]
NoFile == File(Absent, <<>>)

Paths(prefix) == {prefix \o "." \o BEDGRAPH,
                  prefix \o ".plus." \o BEDGRAPH,
                  prefix \o ".minus." \o BEDGRAPH}

\* The first of get_stranded_bedgraph's own checks that fails.
precondition_error(strand_, bg_, bga_, five_prime_, three_prime_) ==
    IF strand_ \notin {"+", "-"}
    THEN Raise("ValueError", "Strand must be '+' or '-'", strand_)
    ELSE IF bg_ /\ bga_
    THEN Raise("ValueError", "bg and bga are mutually exclusive", "")
    ELSE IF ~bg_ /\ ~bga_
    THEN Raise("ValueError", "Either bg or bga must be True", "")
    ELSE IF five_prime_ /\ three_prime_
    THEN Raise("ValueError", "Cannot specify both five_prime and three_prime", "")
    ELSE NoError

\* Python truthiness of max_depth: None and 0 are false.
truthy(n) == n # None /\ n[1] # 0

\* build_kwargs with max_depth never forwarded.
build_kwargs_no_max(strand_, scale_, bg_, bga_, max_depth_, five_prime_, three_prime_) ==
    LET keys == {"strand"}
                \cup (IF scale_ # 1 THEN {"scale"} ELSE {})
                \cup (IF bg_ THEN {"bg"} ELSE {})
                \cup (IF bga_ THEN {"bga"} ELSE {})
                \cup (IF five_prime_ THEN {"5"} ELSE {})
                \cup (IF three_prime_ THEN {"3"} ELSE {})
    IN [k \in keys |-> CASE k = "strand" -> strand_
                         [] k = "scale" -> scale_
                         [] OTHER -> TRUE]

\* build_kwargs with the two zero-mode flags exchanged.
build_kwargs_zero_swapped(strand_, scale_, bg_, bga_, max_depth_, five_prime_, three_prime_) ==
    LET keys == {"strand"}
                \cup (IF scale_ # 1 THEN {"scale"} ELSE {})
                \cup (IF bg_ THEN {"bga"} ELSE {})
                \cup (IF bga_ THEN {"bg"} ELSE {})
                \cup (IF truthy(max_depth_) THEN {"max"} ELSE {})
                \cup (IF five_prime_ THEN {"5"} ELSE {})
                \cup (IF three_prime_ THEN {"3"} ELSE {})
    IN [k \in keys |-> CASE k = "strand" -> strand_
                         [] k = "scale" -> scale_
                         [] k = "max" -> max_depth_[1]
                         [] OTHER -> TRUE]

\* build_kwargs with scale never forwarded.
build_kwargs_no_scale(strand_, scale_, bg_, bga_, max_depth_, five_prime_, three_prime_) ==
    LET keys == {"strand"}
                \cup (IF bg_ THEN {"bg"} ELSE {})
                \cup (IF bga_ THEN {"bga"} ELSE {})
                \cup (IF truthy(max_depth_) THEN {"max"} ELSE {})
                \cup (IF five_prime_ THEN {"5"} ELSE {})
                \cup (IF three_prime_ THEN {"3"} ELSE {})
    IN [k \in keys |-> CASE k = "strand" -> strand_
                         [] k = "max" -> max_depth_[1]
                         [] OTHER -> TRUE]

\* The keyword arguments of bt.genome_coverage.  split, pc, fs, du, ignoreD,
\* trackline and trackopts are forwarded in the same way; they select how the
\* engine turns alignment records into spans and how it heads the file, and
\* the records of bam are the spans that result.
build_kwargs(strand_, scale_, bg_, bga_, max_depth_, five_prime_, three_prime_) ==
    LET keys == {"strand"}
                \cup (IF scale_ # 1 THEN {"scale"} ELSE {})
                \cup (IF bg_ THEN {"bg"} ELSE {})
                \cup (IF bga_ THEN {"bga"} ELSE {})
                \cup (IF truthy(max_depth_) THEN {"max"} ELSE {})
                \cup (IF five_prime_ THEN {"5"} ELSE {})
                \cup (IF three_prime_ THEN {"3"} ELSE {})
    IN [k \in keys |-> CASE k = "strand" -> strand_
                         [] k = "scale" -> scale_
                         [] k = "max" -> max_depth_[1]
                         [] OTHER -> TRUE]

(***************************************************************************)
(* The coverage engine behind bt.genome_coverage: the sweep of section 4.3 *)
(* of the specification over the spans of one chromosome.                  *)
(***************************************************************************)
Event(coord, delta) == [coord |-> coord, delta |-> delta]

\* One start (+1) and one end (-1) event per span, in input order.
RECURSIVE events(_)
events(spans) ==
    IF spans = <<>> THEN <<>>
    ELSE <<Event(spans[1].start, 1), Event(spans[1].end, -1)>>
         \o events(Tail(spans))

\* Order of the breakpoints with start events before end events.
before_starts_first(a, b) ==
    \/ a.coord < b.coord
    \/ a.coord = b.coord /\ a.delta >= b.delta

\* Order of the breakpoints: by coordinate, end events before start events.
before(a, b) ==
    \/ a.coord < b.coord
    \/ a.coord = b.coord /\ a.delta <= b.delta

RECURSIVE insert_event(_, _)
insert_event(e, sorted) ==
    IF sorted = <<>> THEN <<e>>
    ELSE IF before(e, sorted[1]) THEN <<e>> \o sorted
    ELSE <<sorted[1]>> \o insert_event(e, Tail(sorted))

\* The events left in input order.
sort_events_unsorted(evs) == evs

RECURSIVE sort_events(_)
sort_events(evs) ==
    IF evs = <<>> THEN <<>>
    ELSE insert_event(evs[1], sort_events(Tail(evs)))

Run(start, end, depth) == [start |-> start, end |-> end, depth |-> depth]

\* close_run that leaves the previous run as it is instead of extending it.
close_run_no_extend(runs, start, end, depth) ==
    IF /\ runs # <<>>
       /\ runs[Len(runs)].depth = depth
       /\ runs[Len(runs)].end = start
    THEN runs
    ELSE Append(runs, Run(start, end, depth))

\* Close the interval [start, end) held at depth: extend the previous run
\* when it touches and has the same depth, open a new run otherwise.
close_run(runs, start, end, depth) ==
    IF /\ runs # <<>>
       /\ runs[Len(runs)].depth = depth
       /\ runs[Len(runs)].end = start
    THEN [runs EXCEPT ![Len(runs)].end = end]
    ELSE Append(runs, Run(start, end, depth))

\* Left-to-right sweep: prev is the previous breakpoint (-1 before the
\* first), depth the running depth held since prev.
RECURSIVE sweep(_, _, _, _)
sweep(evs, prev, depth, runs) ==
    IF evs = <<>> THEN runs
    ELSE LET e == evs[1] IN
         sweep(Tail(evs), e.coord, depth + e.delta,
               IF prev >= 0 /\ e.coord > prev
               THEN close_run(runs, prev, e.coord, depth)
               ELSE runs)

\* The running depth of the sweep after each event, in the order applied.
RECURSIVE sweep_depths(_, _)
sweep_depths(evs, depth) ==
    IF evs = <<>> THEN <<>>
    ELSE <<depth + evs[1].delta>> \o sweep_depths(Tail(evs), depth + evs[1].delta)

min(a, b) == IF a <= b THEN a ELSE b

\* Ceiling per run after accumulation, then the zero runs are dropped unless
\* includeZero, then the already-ceiled depth is scaled.
accumulate(spans, depthCeiling, includeZero, scale_) ==
    LET raw == sweep(sort_events(events(spans)), -1, 0, <<>>)
        ceiled == [k \in 1..Len(raw) |->
                     IF depthCeiling = None THEN raw[k]
                     ELSE [raw[k] EXCEPT !.depth = min(@, depthCeiling[1])]]
        kept == SelectSeq(ceiled, LAMBDA r : includeZero \/ r.depth # 0)
    IN [k \in 1..Len(kept) |-> [kept[k] EXCEPT !.depth = @ * scale_]]

\* bt.genome_coverage(**kwargs): the records on the requested strand go
\* through the sweep with the options present in kwargs.
genome_coverage(records, kwargs) ==
    accumulate(SelectSeq(records, LAMBDA r : r.strand = kwargs["strand"]),
               IF "max" \in DOMAIN kwargs THEN Some(kwargs["max"]) ELSE None,
               "bga" \in DOMAIN kwargs,
               IF "scale" \in DOMAIN kwargs THEN kwargs["scale"] ELSE 1)

(***************************************************************************)
(* coverage.py: get_stranded_bedgraph and get_stranded_coverage.           *)
(***************************************************************************)
\* What the engine and the file system may do to one call: succeed, fail
\* while reading or computing, fail to write leaving the destination as it
\* was, or fail to write leaving a partial file.
Outcomes == {"ok", "read_error", "write_error", "write_partial"}

\* result.saveas(output_path): creates or overwrites the file.
save_as(disk_, output_path, result) ==
    [disk_ EXCEPT ![output_path] = File("complete", result)]

PassResult(raised, err, value, disk_) ==
    [raised |-> raised, error |-> err, value |-> value, disk |-> disk_]

get_stranded_bedgraph(records, strand_, output_prefix_, scale_, bg_, bga_, max_depth_, five_prime_, three_prime_, disk_, outcome) ==
    LET pre == precondition_error(strand_, bg_, bga_, five_prime_, three_prime_)
        kwargs == build_kwargs(strand_, scale_, bg_, bga_, max_depth_,
                               five_prime_, three_prime_)
        result == genome_coverage(records, kwargs)
        output_path == output_prefix_ \o "." \o get_file_extension(BEDGRAPH)
    IN  IF pre # NoError THEN PassResult(TRUE, pre, "", disk_)
        ELSE IF outcome = "read_error"
        THEN PassResult(TRUE, Raise("BEDToolsError", "genome_coverage", ""), "", disk_)
        ELSE IF outcome = "write_error"
        THEN PassResult(TRUE, Raise("OSError", "saveas", output_path), "", disk_)
        ELSE IF outcome = "write_partial"
        THEN PassResult(TRUE, Raise("OSError", "saveas", output_path), "",
                        [disk_ EXCEPT ![output_path] = File("partial", <<>>)])
        ELSE PassResult(FALSE, NoError, output_path,
                        save_as(disk_, output_path, result))

get_stranded_coverage(records, strand_, output_prefix_, file_type, scale_, bg_, bga_, max_depth_, five_prime_, three_prime_, disk_, outcome) ==
    IF file_type = BEDGRAPH
    THEN get_stranded_bedgraph(records, strand_, output_prefix_, scale_, bg_, bga_,
                               max_depth_, five_prime_, three_prime_, disk_, outcome)
    ELSE PassResult(TRUE, Raise("ValueError", "Unsupported file type", file_type),
                    "", disk_)

(***************************************************************************)
(* cli.py: validate_parameters and the loop of rnabam2cov.                 *)
(***************************************************************************)
valid_types == LibraryType
valid_strands == {"+", "-"}
valid_file_types == {BEDGRAPH}

\* The first entry of strands that is not a valid strand, in list order.
first_invalid(strands_) ==
    strands_[CHOOSE k \in 1..Len(strands_) :
                /\ strands_[k] \notin valid_strands
                /\ \A j \in 1..(k - 1) : strands_[j] \in valid_strands]

\* validate_parameters checking only the first entry of strands.
validate_parameters_first_strand(bam_exists_, libtype_, strands_, bg_, bga_, five_prime_, three_prime_, file_type) ==
    IF ~bam_exists_
    THEN Raise("FileNotFoundError", "bam_path", "")
    ELSE IF libtype_ \notin valid_types
    THEN Raise("ValueError", "libtype", format(libtype_))
    ELSE IF strands_ # <<>> /\ strands_[1] \notin valid_strands
    THEN Raise("ValueError", "strand", strands_[1])
    ELSE IF bg_ /\ bga_
    THEN Raise("ValueError", "bg and bga", "")
    ELSE IF ~bg_ /\ ~bga_
    THEN Raise("ValueError", "neither bg nor bga", "")
    ELSE IF five_prime_ /\ three_prime_
    THEN Raise("ValueError", "five_prime and three_prime", "")
    ELSE IF file_type \notin valid_file_types
    THEN Raise("ValueError", "file_type", file_type)
    ELSE NoError

\* validate_parameters reporting the last invalid entry of strands.
validate_parameters_last_strand(bam_exists_, libtype_, strands_, bg_, bga_, five_prime_, three_prime_, file_type) ==
    IF ~bam_exists_
    THEN Raise("FileNotFoundError", "bam_path", "")
    ELSE IF libtype_ \notin valid_types
    THEN Raise("ValueError", "libtype", format(libtype_))
    ELSE IF \E k \in 1..Len(strands_) : strands_[k] \notin valid_strands
    THEN Raise("ValueError", "strand",
               strands_[CHOOSE k \in 1..Len(strands_) :
                           /\ strands_[k] \notin valid_strands
                           /\ \A j \in (k + 1)..Len(strands_) : strands_[j] \in valid_strands])
    ELSE IF bg_ /\ bga_
    THEN Raise("ValueError", "bg and bga", "")
    ELSE IF ~bg_ /\ ~bga_
    THEN Raise("ValueError", "neither bg nor bga", "")
    ELSE IF five_prime_ /\ three_prime_
    THEN Raise("ValueError", "five_prime and three_prime", "")
    ELSE IF file_type \notin valid_file_types
    THEN Raise("ValueError", "file_type", file_type)
    ELSE NoError

\* validate_parameters without the checks of bg/bga and five_prime/three_prime.
validate_parameters_no_options(bam_exists_, libtype_, strands_, bg_, bga_, five_prime_, three_prime_, file_type) ==
    IF ~bam_exists_
    THEN Raise("FileNotFoundError", "bam_path", "")
    ELSE IF libtype_ \notin valid_types
    THEN Raise("ValueError", "libtype", format(libtype_))
    ELSE IF \E k \in 1..Len(strands_) : strands_[k] \notin valid_strands
    THEN Raise("ValueError", "strand", first_invalid(strands_))
    ELSE IF file_type \notin valid_file_types
    THEN Raise("ValueError", "file_type", file_type)
    ELSE NoError

validate_parameters(bam_exists_, libtype_, strands_, bg_, bga_, five_prime_, three_prime_, file_type) ==
    IF ~bam_exists_
    THEN Raise("FileNotFoundError", "bam_path", "")
    ELSE IF libtype_ \notin valid_types
    THEN Raise("ValueError", "libtype", format(libtype_))
    ELSE IF \E k \in 1..Len(strands_) : strands_[k] \notin valid_strands
    THEN Raise("ValueError", "strand", first_invalid(strands_))
    ELSE IF bg_ /\ bga_
    THEN Raise("ValueError", "bg and bga", "")
    ELSE IF ~bg_ /\ ~bga_
    THEN Raise("ValueError", "neither bg nor bga", "")
    ELSE IF five_prime_ /\ three_prime_
    THEN Raise("ValueError", "five_prime and three_prime", "")
    ELSE IF file_type \notin valid_file_types
    THEN Raise("ValueError", "file_type", file_type)
    ELSE NoError

\* One entry of the log of passes: the strand and prefix handed to
\* get_stranded_coverage, whether it raised, and the file it left at its
\* output path.
Call(strand_, path, raised, written) ==
    [strand |-> strand_, path |-> path, raised |-> raised, written |-> written]

\* loop_step putting the new path first in the list.
loop_step_prepend(r, output_files_) ==
    IF r.raised
    THEN [step |-> "failed", error |-> r.error, output_files |-> output_files_]
    ELSE [step |-> "loop", error |-> NoError,
          output_files |-> <<r.value>> \o output_files_]

\* loop_step going on to the next strand after a pass raised.
loop_step_swallow(r, output_files_) ==
    IF r.raised
    THEN [step |-> "loop", error |-> NoError, output_files |-> output_files_]
    ELSE [step |-> "loop", error |-> NoError,
          output_files |-> Append(output_files_, r.value)]

\* The body of `for strand in strands` after the pass returned or raised:
\* an exception leaves rnabam2cov at once, a path is appended to the list.
loop_step(r, output_files_) ==
    IF r.raised
    THEN [step |-> "failed", error |-> r.error, output_files |-> output_files_]
    ELSE [step |-> "loop", error |-> NoError,
          output_files |-> Append(output_files_, r.value)]

(***************************************************************************)
(* Inputs.                                                                 *)
(***************************************************************************)
CaseVariants(word) ==
    {[k \in 1..Len(word) |-> IF k \in S THEN upper_char(word[k]) ELSE word[k]] :
        S \in SUBSET (1..Len(word))}

InvalidLabels ==
    {<<>>,
     <<"i","n","v","a","l","i","d">>,
     <<"f","o","r","w","a","r","d","s">>,
     <<"f","w","d">>,
     <<"r","e","v","e","r","s","e"," ">>,
     <<"u","n","s","t","r","a","n","d","e","d">>}

Labels == CaseVariants(FORWARD) \cup CaseVariants(REVERSE) \cup InvalidLabels

\* The labels rnabam2cov is run on: both values, two of their case variants
\* and two invalid labels.
PipelineLabels ==
    {FORWARD, REVERSE,
     <<"F","O","R","W","A","R","D">>, <<"R","e","v","e","r","s","e">>,
     <<"i","n","v","a","l","i","d">>, <<>>}

Prefixes == {"sample", "/path/to/test", ""}

\* The base prefixes rnabam2cov is run on.
PipelinePrefixes == {"sample", ""}

\* A record: a span [start, end) with start < end, and its aligned strand.
Records == {sp \in [start : 0..MaxCoord, end : 0..MaxCoord, strand : {"+", "-"}] :
               sp.start < sp.end}
Bams == UNION {[1..n -> Records] : n \in 0..MaxSpans}

\* The alignment files rnabam2cov is run on.
ExampleBams ==
    {<<>>,
     <<[start |-> 0, end |-> 2, strand |-> "+"],
       [start |-> 1, end |-> 3, strand |-> "+"],
       [start |-> 1, end |-> 2, strand |-> "-"]>>}

StrandLists == UNION {[1..n -> {"+", "-", "invalid", "."}] : n \in 0..MaxStrands}

MaxDepths == {None} \cup {Some(n) : n \in 1..MaxDepthArg}
Scales == 1..MaxScale

EmptyDisk(prefix) == [p \in Paths(prefix) |-> NoFile]
StaleDisk(prefix) == [p \in Paths(prefix) |-> File("stale", <<>>)]

(***************************************************************************)
(* SpecPolicy: get_strand_mapping and get_output_prefixes on any label.    *)
(***************************************************************************)
InitPolicy ==
    /\ libtype \in Labels
    /\ output_prefix \in Prefixes
    /\ bam_exists = TRUE /\ bam = <<>> /\ strands = <<>>
    /\ bg = TRUE /\ bga = FALSE /\ five_prime = FALSE /\ three_prime = FALSE
    /\ max_depth = None /\ scale = 1
    /\ step = "policy" /\ strand = ""
    /\ output_files = <<>> /\ calls = <<>>
    /\ disk = EmptyDisk(output_prefix)
    /\ error = NoError /\ returned = NotReturned /\ first_output = NoFile /\ reordered = FALSE
    /\ argv = NoArgv /\ exit_code = None /\ stderr = ""

\* Leave a pure call with its value or its exception.
Finish(r, where) ==
    /\ step' = where
    /\ error' = IF r.raised THEN r.error ELSE NoError
    /\ returned' = IF r.raised THEN NotReturned ELSE Returned(r.value)

CallGetStrandMapping ==
    /\ step = "policy"
    /\ Finish(get_strand_mapping(libtype), "resolved")
    /\ UNCHANGED <<process, inputs, strand, output_files, calls, disk, first_output, reordered>>

CallGetOutputPrefixes ==
    /\ step = "policy"
    /\ Finish(get_output_prefixes(output_prefix, libtype), "prefixed")
    /\ UNCHANGED <<process, inputs, strand, output_files, calls, disk, first_output, reordered>>

NextPolicy == CallGetStrandMapping \/ CallGetOutputPrefixes

SpecPolicy == InitPolicy /\ [][NextPolicy]_vars

(***************************************************************************)
(* SpecBedgraph: get_stranded_bedgraph called directly on an alignment     *)
(* file, then the file's records reordered and the call repeated.          *)
(***************************************************************************)
InitBedgraph ==
    /\ bam \in Bams
    /\ strand \in {"+", "-"}
    /\ bg \in BOOLEAN /\ bga \in BOOLEAN
    /\ max_depth \in MaxDepths
    /\ scale \in Scales
    /\ five_prime = FALSE /\ three_prime = FALSE
    /\ bam_exists = TRUE /\ libtype = FORWARD /\ strands = <<>>
    /\ output_prefix = "sample"
    /\ step = "direct"
    /\ output_files = <<>> /\ calls = <<>>
    /\ disk = EmptyDisk(output_prefix)
    /\ error = NoError /\ returned = NotReturned /\ first_output = NoFile /\ reordered = FALSE
    /\ argv = NoArgv /\ exit_code = None /\ stderr = ""

\* One call of get_stranded_bedgraph on the current file and arguments.
DirectCall(outcome, done) ==
    LET r == get_stranded_bedgraph(bam, strand, output_prefix, scale, bg, bga,
                                   max_depth, five_prime, three_prime, disk, outcome)
    IN  /\ disk' = r.disk
        /\ error' = r.error
        /\ step' = IF r.raised THEN "direct_failed" ELSE done
        /\ returned' = IF r.raised THEN NotReturned ELSE Returned(r.value)
        /\ first_output' = IF r.raised \/ step # "direct" THEN first_output
                           ELSE r.disk[r.value]
        /\ UNCHANGED <<process, inputs, strand, output_files, calls, reordered>>

FirstCall ==
    /\ step = "direct"
    /\ \E outcome \in Outcomes : DirectCall(outcome, "direct_done")

\* The same records in another order: two neighbours exchanged.
Reorder ==
    /\ step = "direct_done"
    /\ \E k \in 1..(Len(bam) - 1) :
          bam' = [bam EXCEPT ![k] = bam[k + 1], ![k + 1] = bam[k]]
    /\ reordered' = TRUE
    /\ UNCHANGED <<process, bam_exists, libtype, output_prefix, strands, bg, bga,
                   five_prime, three_prime, max_depth, scale, step, strand,
                   output_files, calls, disk, error, returned, first_output>>

\* The call repeated with the same arguments.
Rerun ==
    /\ step = "direct_done"
    /\ \E outcome \in Outcomes : DirectCall(outcome, "rerun_done")

NextBedgraph == FirstCall \/ Reorder \/ Rerun

SpecBedgraph == InitBedgraph /\ [][NextBedgraph]_vars

(***************************************************************************)
(* Spec: one invocation of rnabam2cov.                                     *)
(***************************************************************************)
Init ==
    /\ bam_exists \in BOOLEAN
    /\ bam \in ExampleBams
    /\ libtype \in PipelineLabels
    /\ output_prefix \in PipelinePrefixes
    /\ strands \in StrandLists
    /\ bg \in BOOLEAN /\ bga \in BOOLEAN
    /\ five_prime \in BOOLEAN /\ three_prime \in BOOLEAN
    /\ max_depth \in {None, Some(0), Some(MaxDepthArg)}
    /\ scale = 1
    /\ step = "start" /\ strand = ""
    /\ output_files = <<>> /\ calls = <<>>
    /\ disk \in {EmptyDisk(output_prefix), StaleDisk(output_prefix)}
    /\ error = NoError /\ returned = NotReturned /\ first_output = NoFile /\ reordered = FALSE
    /\ argv = NoArgv /\ exit_code = None /\ stderr = ""

\* validate_parameters, then get_output_prefixes.
Validate ==
    /\ step = "start"
    /\ LET err == validate_parameters(bam_exists, libtype, strands, bg, bga,
                                      five_prime, three_prime, BEDGRAPH)
           output_prefixes == get_output_prefixes(output_prefix, libtype)
       IN  IF err # NoError
           THEN step' = "failed" /\ error' = err
           ELSE IF output_prefixes.raised
           THEN step' = "failed" /\ error' = output_prefixes.error
           ELSE step' = "loop" /\ error' = NoError
    /\ UNCHANGED <<process, inputs, strand, output_files, calls, disk, returned, first_output, reordered>>

\* One iteration of `for strand in strands`.
StrandPass ==
    /\ step = "loop"
    /\ Len(calls) < Len(strands)
    /\ LET s == strands[Len(calls) + 1]
           output_prefixes == get_output_prefixes(output_prefix, libtype).value
       IN  /\ strand' = s
           /\ IF s \notin DOMAIN output_prefixes
              THEN /\ step' = "failed"
                   /\ error' = Raise("KeyError", "output_prefixes", s)
                   /\ calls' = Append(calls, Call(s, "", TRUE, NoFile))
                   /\ UNCHANGED <<output_files, disk>>
              ELSE \E outcome \in Outcomes :
                      LET strand_prefix == output_prefixes[s]
                          r == get_stranded_coverage(bam, s, strand_prefix, BEDGRAPH,
                                   scale, bg, bga, max_depth, five_prime,
                                   three_prime, disk, outcome)
                          path == strand_prefix \o "." \o BEDGRAPH
                          nxt == loop_step(r, output_files)
                      IN  /\ disk' = r.disk
                          /\ calls' = Append(calls, Call(s, path, r.raised, r.disk[path]))
                          /\ step' = nxt.step
                          /\ error' = nxt.error
                          /\ output_files' = nxt.output_files
    /\ UNCHANGED <<process, inputs, returned, first_output, reordered>>

\* The loop is exhausted: return output_files.
Return ==
    /\ step = "loop"
    /\ Len(calls) = Len(strands)
    /\ step' = "done"
    /\ returned' = Returned(output_files)
    /\ UNCHANGED <<process, inputs, strand, output_files, calls, disk, error, first_output, reordered>>

Next == Validate \/ StrandPass \/ Return

Spec == Init /\ [][Next]_vars

(***************************************************************************)
(* SpecMain: the command-line entry point, main(): parse_args, then        *)
(* rnabam2cov, then the exit of the process.                               *)
(***************************************************************************)
\* The first error argparse finds in the command line, "" when there is
\* none: a value outside the choices of --libtype or --strand, --strand
\* without a value, two options of one mutually exclusive group, a missing
\* required option.
parse_error(argv_) ==
    IF argv_.libtype # None /\ argv_.libtype[1] \notin {FORWARD, REVERSE}
    THEN "argument --libtype: invalid choice"
    ELSE IF argv_.strand # None /\ argv_.strand[1] = <<>>
    THEN "argument --strand: expected at least one argument"
    ELSE IF /\ argv_.strand # None
            /\ \E k \in 1..Len(argv_.strand[1]) : argv_.strand[1][k] \notin {"+", "-"}
    THEN "argument --strand: invalid choice"
    ELSE IF argv_.bg /\ argv_.bga
    THEN "argument --bga: not allowed with argument --bg"
    ELSE IF argv_.five_prime /\ argv_.three_prime
    THEN "argument --three-prime: not allowed with argument --five-prime"
    ELSE IF ~argv_.input \/ argv_.libtype = None \/ ~argv_.output_prefix
    THEN "the following arguments are required"
    ELSE ""

ParseResult(exited, code, message, args) ==
    [exited |-> exited, code |-> code, stderr |-> message, args |-> args]

\* parse_args: a command line with no argument prints the help and exits
\* with code 0; an error found by argparse exits with code 2 and a message
\* on the error stream; otherwise the namespace, with the defaults filled in
\* (--strand: both strands, bg: True).
parse_args(argv_) ==
    IF argv_ = NoArgv
    THEN ParseResult(TRUE, 0, "", argv_)
    ELSE IF parse_error(argv_) # ""
    THEN ParseResult(TRUE, 2, parse_error(argv_), argv_)
    ELSE ParseResult(FALSE, 0, "", [argv_ EXCEPT !.strand = IF @ = None THEN <<"+", "-">> ELSE @[1], !.libtype = @[1], !.bg = TRUE])

\* The command lines main is run on.
ArgvLabels == {None, Some(FORWARD), Some(REVERSE),
               Some(<<"F","O","R","W","A","R","D">>),
               Some(<<"i","n","v","a","l","i","d">>)}
ArgvStrands == {None} \cup {Some(l) : l \in UNION {[1..n -> {"+", "-", "invalid"}] : n \in 0..2}}
Argvs == {Argv(i, lt, o, st, b, ba, md, fp, tp) :
             i \in BOOLEAN, lt \in ArgvLabels, o \in BOOLEAN, st \in ArgvStrands,
             b \in BOOLEAN, ba \in BOOLEAN, md \in {None, Some(0), Some(MaxDepthArg)},
             fp \in BOOLEAN, tp \in BOOLEAN}

InitMain ==
    /\ argv \in Argvs
    /\ exit_code = None /\ stderr = ""
    /\ bam_exists \in BOOLEAN
    /\ bam \in ExampleBams
    /\ output_prefix = "sample"
    /\ libtype = <<>> /\ strands = <<>>
    /\ bg = FALSE /\ bga = FALSE /\ five_prime = FALSE /\ three_prime = FALSE
    /\ max_depth = None /\ scale = 1
    /\ step = "main" /\ strand = ""
    /\ output_files = <<>> /\ calls = <<>>
    /\ disk \in {EmptyDisk(output_prefix), StaleDisk(output_prefix)}
    /\ error = NoError /\ returned = NotReturned /\ first_output = NoFile /\ reordered = FALSE

\* args = parse_args(), then the arguments of the rnabam2cov call: bg and bga
\* from args.bga, the others from the namespace.
MainParse ==
    /\ step = "main"
    /\ LET r == parse_args(argv) IN
       IF r.exited
       THEN /\ step' = "exited"
            /\ exit_code' = Some(r.code)
            /\ stderr' = r.stderr
            /\ UNCHANGED <<libtype, strands, bg, bga, five_prime, three_prime, max_depth>>
       ELSE /\ step' = "start"
            /\ libtype' = r.args.libtype
            /\ strands' = r.args.strand
            /\ bg' = ~r.args.bga
            /\ bga' = r.args.bga
            /\ five_prime' = r.args.five_prime
            /\ three_prime' = r.args.three_prime
            /\ max_depth' = r.args.max_depth
            /\ UNCHANGED <<exit_code, stderr>>
    /\ UNCHANGED <<argv, bam_exists, bam, output_prefix, scale, strand, output_files,
                   calls, disk, error, returned, first_output, reordered>>

\* main after rnabam2cov returned or raised: the list of files is printed
\* and the process ends normally, or `except Exception` prints the error on
\* the error stream and calls sys.exit(1).
MainExit ==
    /\ step \in {"done", "failed"}
    /\ step' = "exited"
    /\ exit_code' = IF step = "done" THEN Some(0) ELSE Some(1)
    /\ stderr' = IF step = "done" THEN "" ELSE "Error: " \o error.what
    /\ UNCHANGED <<argv, inputs, strand, output_files, calls, disk, error, returned,
                   first_output, reordered>>

NextMain == MainParse \/ Validate \/ StrandPass \/ Return \/ MainExit

SpecMain == InitMain /\ [][NextMain]_vars

(***************************************************************************)
(* Properties.                                                             *)
(***************************************************************************)
\* label spells word in some letter case.
IsLabel(label, word) ==
    /\ Len(label) = Len(word)
    /\ \A k \in 1..Len(word) : label[k] \in {word[k], upper_char(word[k])}

Identity == [g \in {"+", "-"} |-> g]
Inverted == [g \in {"+", "-"} |-> IF g = "+" THEN "-" ELSE "+"]

\* C1: get_output_prefixes maps '+' to <prefix>.plus and '-' to
\* <prefix>.minus for the forward protocol, '+' to <prefix>.minus and '-' to
\* <prefix>.plus for the reverse protocol, and its result has exactly the
\* keys '+' and '-'.
C1_OutputPrefixes ==
    step = "prefixed" =>
        /\ IsLabel(libtype, FORWARD) =>
              /\ returned.done
              /\ returned.value = [g \in {"+", "-"} |->
                                     IF g = "+" THEN output_prefix \o ".plus"
                                                ELSE output_prefix \o ".minus"]
        /\ IsLabel(libtype, REVERSE) =>
              /\ returned.done
              /\ returned.value = [g \in {"+", "-"} |->
                                     IF g = "+" THEN output_prefix \o ".minus"
                                                ELSE output_prefix \o ".plus"]
        /\ returned.done => DOMAIN returned.value = {"+", "-"}

C1_Witness ==
    /\ step = "prefixed"
    /\ libtype = REVERSE
    /\ output_prefix = "/path/to/test"
    /\ returned.done
    /\ returned.value["+"] = "/path/to/test.minus"

\* C2: get_strand_mapping returns the identity mapping for 'forward' and the
\* inverted mapping for 'reverse' in any letter case, and raises an
\* invalid-label error, returning nothing, for every other string.
C2_StrandMapping ==
    step = "resolved" =>
        /\ IsLabel(libtype, FORWARD) => returned.done /\ returned.value = Identity
        /\ IsLabel(libtype, REVERSE) => returned.done /\ returned.value = Inverted
        /\ ~IsLabel(libtype, FORWARD) /\ ~IsLabel(libtype, REVERSE) =>
              ~returned.done /\ error.exc = "ValueError"

C2_Witness ==
    /\ step = "resolved"
    /\ libtype = <<"R","e","V","E","r","s","E">>
    /\ returned.done
    /\ returned.value["+"] = "-"

\* The path a requested strand is routed to: <prefix>.plus.bedgraph when the
\* strand maps to transcribed '+' under the library type (aligned '+' for
\* forward, aligned '-' for reverse), <prefix>.minus.bedgraph otherwise.
RoutedPath(label, s) ==
    IF (label = FORWARD /\ s = "+") \/ (label = REVERSE /\ s = "-")
    THEN output_prefix \o ".plus.bedgraph"
    ELSE output_prefix \o ".minus.bedgraph"

Untouched == disk \in {EmptyDisk(output_prefix), StaleDisk(output_prefix)}

\* C3: a completed invocation has run exactly one pass per entry of the
\* strand list, in list order, returns the routed path of the i-th strand
\* as its i-th element, and has written no other file.
C3_Route ==
    step = "done" =>
        /\ Len(calls) = Len(strands)
        /\ \A i \in 1..Len(strands) :
              calls[i].strand = strands[i] /\ ~calls[i].raised
        /\ returned.done
        /\ Len(returned.value) = Len(strands)
        /\ \A i \in 1..Len(strands) :
              /\ returned.value[i] = RoutedPath(libtype, strands[i])
              /\ disk[returned.value[i]].state = "complete"
        /\ \A p \in DOMAIN disk :
              (\A i \in 1..Len(strands) : returned.value[i] # p) =>
                  disk[p].state \in {Absent, "stale"}

C3_Witness ==
    /\ step = "done"
    /\ libtype = REVERSE
    /\ strands = <<"+">>
    /\ returned.value = <<"sample.minus.bedgraph">>
    /\ disk["sample.minus.bedgraph"].state = "complete"
    /\ disk["sample.plus.bedgraph"].state = Absent

\* A configuration error: both or neither of bg and bga, both five_prime and
\* three_prime, a library type outside {forward, reverse}, a strand outside
\* {'+', '-'} anywhere in the list, or a missing input file.
ConfigError ==
    \/ bg /\ bga
    \/ ~bg /\ ~bga
    \/ five_prime /\ three_prime
    \/ libtype \notin {FORWARD, REVERSE}
    \/ \E k \in 1..Len(strands) : strands[k] \notin {"+", "-"}
    \/ ~bam_exists

\* C4: on a configuration error rnabam2cov fails before any pass: no pass is
\* called, no file is created or overwritten, nothing is returned.
C4_EagerValidation ==
    ConfigError =>
        /\ calls = <<>>
        /\ Untouched
        /\ ~returned.done
        /\ step \in {"start", "failed"}
        /\ step = "failed" => error.exc \in {"ValueError", "FileNotFoundError"}

C4_Witness ==
    /\ step = "failed"
    /\ bam_exists /\ libtype = FORWARD /\ bg /\ ~bga /\ ~five_prime
    /\ strands = <<"+", "-", "invalid">>
    /\ error.what = "strand" /\ error.value = "invalid"
    /\ disk = StaleDisk(output_prefix)

\* C5 as stated: a failed pass is the last pass, nothing is returned, and
\* every file written by an earlier pass is still as that pass left it.
C5_FailFastAllFilesKept ==
    \A k \in 1..Len(calls) :
        calls[k].raised =>
            /\ k = Len(calls)
            /\ step = "failed"
            /\ ~returned.done
            /\ \A j \in 1..(k - 1) : disk[calls[j].path] = calls[j].written

\* C5 (amended): a failed pass is the last pass, nothing is returned, and every
\* file written by an earlier pass to a path other than the failed pass's own
\* output path is still as that pass left it.
C5_FailFast ==
    \A k \in 1..Len(calls) :
        calls[k].raised =>
            /\ k = Len(calls)
            /\ step = "failed"
            /\ ~returned.done
            /\ \A j \in 1..(k - 1) :
                  calls[j].path # calls[k].path =>
                      disk[calls[j].path] = calls[j].written

C5_Witness ==
    /\ step = "failed"
    /\ strands = <<"+", "-", "+">>
    /\ Len(calls) = 2
    /\ calls[2].raised
    /\ disk[calls[2].path].state = "partial"
    /\ disk[calls[1].path].state = "complete"
    /\ output_files = <<calls[1].path>>

\* C6 as stated: with the library type given in any letter case, rnabam2cov
\* does not fail with the invalid-label error, and a completed invocation
\* returns the paths routed as for the lower-case label.
C6_CaseInsensitiveEntry ==
    IsLabel(libtype, FORWARD) \/ IsLabel(libtype, REVERSE) =>
        /\ step = "failed" => error.what # "libtype"
        /\ step = "done" =>
              \A i \in 1..Len(strands) :
                  returned.value[i] = RoutedPath(lower(libtype), strands[i])

(***************************************************************************)
(* Properties of the runs get_stranded_bedgraph writes.                    *)
(***************************************************************************)
Completed == step \in {"direct_done", "rerun_done"}

\* The runs in the file of the direct call.
Output == disk[output_prefix \o ".bedgraph"].runs

\* The records on the requested strand.
Requested == SelectSeq(bam, LAMBDA r : r.strand = strand)

\* Number of requested records covering position x.
TrueDepth(x) ==
    Cardinality({k \in 1..Len(Requested) :
                    Requested[k].start <= x /\ x < Requested[k].end})

\* Depth the file reports at position x: that of the run holding x, 0 when
\* no run holds it.
Reported(x) ==
    IF \E k \in 1..Len(Output) : Output[k].start <= x /\ x < Output[k].end
    THEN Output[CHOOSE k \in 1..Len(Output) :
                   Output[k].start <= x /\ x < Output[k].end].depth
    ELSE 0

RECURSIVE RunMass(_)
RunMass(runs) ==
    IF runs = <<>> THEN 0
    ELSE runs[1].depth * (runs[1].end - runs[1].start) + RunMass(Tail(runs))

RECURSIVE SpanMass(_)
SpanMass(spans) ==
    IF spans = <<>> THEN 0
    ELSE (spans[1].end - spans[1].start) + SpanMass(Tail(spans))

CeilingSet == max_depth # None /\ max_depth[1] >= 1

\* C7 as stated: the emitted runs are sorted strictly ascending by start, do
\* not overlap, and two consecutive runs that touch never carry the same
\* depth, whatever the ceiling and the zero mode.
C7_MaximalRuns ==
    Completed =>
        \A k \in 1..(Len(Output) - 1) :
            /\ Output[k].start < Output[k + 1].start
            /\ Output[k].end <= Output[k + 1].start
            /\ Output[k].end = Output[k + 1].start =>
                  Output[k].depth # Output[k + 1].depth

\* C8: with no ceiling and scale 1 the sum of depth * (end - start) over the
\* emitted runs equals the sum of (end - start) over the records on the
\* requested strand, with zero runs omitted (bg) or included (bga).
C8_Conservation ==
    Completed /\ max_depth = None /\ scale = 1 =>
        RunMass(Output) = SpanMass(Requested)

C8_Witness ==
    /\ Completed
    /\ max_depth = None /\ scale = 1 /\ bga
    /\ strand = "+"
    /\ bam = <<[start |-> 0, end |-> 2, strand |-> "+"],
               [start |-> 2, end |-> 3, strand |-> "-"],
               [start |-> 1, end |-> 3, strand |-> "+"]>>
    /\ RunMass(Output) = 4

\* C9 as stated: with a ceiling set no emitted depth exceeds the ceiling, a
\* position whose accumulated depth reaches the ceiling is reported at
\* exactly the ceiling, and a position below it at its accumulated depth.
C9_CeilingUnscaled ==
    Completed /\ CeilingSet =>
        /\ \A k \in 1..Len(Output) : Output[k].depth <= max_depth[1]
        /\ \A x \in 0..MaxCoord :
              Reported(x) = min(TrueDepth(x), max_depth[1])

\* C9 (amended): with a ceiling set no emitted depth exceeds ceiling * scale,
\* a position whose accumulated depth reaches the ceiling is reported at
\* exactly ceiling * scale, and a position below it at its accumulated depth
\* times scale.
C9_Ceiling ==
    Completed /\ CeilingSet =>
        /\ \A k \in 1..Len(Output) : Output[k].depth <= max_depth[1] * scale
        /\ \A x \in 0..MaxCoord :
              Reported(x) = min(TrueDepth(x), max_depth[1]) * scale

C9_Witness ==
    /\ Completed
    /\ max_depth = Some(2) /\ scale = 2 /\ bg
    /\ TrueDepth(1) = 3 /\ Reported(1) = 4
    /\ TrueDepth(0) = 1 /\ Reported(0) = 2

\* C10: the emitted runs do not depend on the order of the records nor on
\* the call being repeated: after any reordering of the file and a second
\* call with the same options, the file holds the runs the first call wrote.
C10_OrderIndependent ==
    step = "rerun_done" => disk[output_prefix \o ".bedgraph"] = first_output

C10_Witness ==
    /\ step = "rerun_done"
    /\ reordered
    /\ bam = <<[start |-> 1, end |-> 3, strand |-> "+"],
               [start |-> 0, end |-> 2, strand |-> "+"]>>
    /\ strand = "+" /\ max_depth = None /\ scale = 1 /\ bg
    /\ Output = <<Run(0, 1, 1), Run(1, 2, 2), Run(2, 3, 1)>>
    /\ first_output.runs = Output

\* The zero runs of the file, as (start, end) pairs.
ZeroRuns == {<<Output[k].start, Output[k].end>> :
                k \in {j \in 1..Len(Output) : Output[j].depth = 0}}

\* The uncovered gaps between the first span start and the last span end:
\* the maximal intervals of uncovered positions that have a covered position
\* on either side.
Gaps == {g \in (0..MaxCoord) \X (0..MaxCoord) :
            /\ 0 < g[1] /\ g[1] < g[2]
            /\ \A x \in g[1]..(g[2] - 1) : TrueDepth(x) = 0
            /\ TrueDepth(g[1] - 1) > 0
            /\ TrueDepth(g[2]) > 0}

\* C11: a bg file holds no run of depth 0; a bga file holds one depth-0 run
\* for exactly every uncovered gap between the first span start and the last
\* span end, and no zero run before the first span or after the last one.
C11_ZeroRuns ==
    Completed =>
        /\ bg => \A k \in 1..Len(Output) : Output[k].depth # 0
        /\ bga =>
              /\ ZeroRuns = Gaps
              /\ Cardinality({k \in 1..Len(Output) : Output[k].depth = 0})
                    = Cardinality(Gaps)
              /\ \A k \in 1..Len(Output) :
                    Output[k].depth = 0 =>
                        /\ \E j \in 1..Len(Requested) :
                              Requested[j].start < Output[k].start
                        /\ \E j \in 1..Len(Requested) :
                              Requested[j].end > Output[k].end

C11_Witness ==
    /\ Completed
    /\ bga /\ strand = "+" /\ max_depth = None /\ scale = 1
    /\ bam = <<[start |-> 0, end |-> 1, strand |-> "+"],
               [start |-> 2, end |-> 3, strand |-> "+"]>>
    /\ Output = <<Run(0, 1, 1), Run(1, 2, 0), Run(2, 3, 1)>>

(***************************************************************************)
(* Properties of the command-line entry point.                             *)
(***************************************************************************)
\* Every requested coverage file was generated: rnabam2cov returned one
\* path per requested strand and each holds a complete file.
Generated ==
    /\ returned.done
    /\ Len(returned.value) = Len(strands)
    /\ \A i \in 1..Len(returned.value) : disk[returned.value[i]].state = "complete"

MissingRequired == ~argv.input \/ argv.libtype = None \/ ~argv.output_prefix

InvalidChoice ==
    \/ argv.libtype # None /\ argv.libtype[1] \notin {FORWARD, REVERSE}
    \/ /\ argv.strand # None
       /\ \E k \in 1..Len(argv.strand[1]) : argv.strand[1][k] \notin {"+", "-"}

\* C12 as stated: the process exits with code 0 exactly when every requested
\* coverage file was generated; on a missing required argument, an invalid
\* --libtype or --strand value, or an exception raised by rnabam2cov it exits
\* with a non-zero code and a message on the error stream.
C12_ExitCodes ==
    step = "exited" =>
        /\ exit_code = Some(0) <=> Generated
        /\ MissingRequired \/ InvalidChoice \/ error # NoError =>
              exit_code # Some(0) /\ stderr # ""

(***************************************************************************)
(* Ceiling and scale together.                                             *)
(***************************************************************************)
\* The accumulated depth d after the ceiling, when one is set.
Clamped(d) == IF CeilingSet THEN min(d, max_depth[1]) ELSE d

\* The runs of the same call with no scale passed.
UnscaledRuns ==
    accumulate(Requested, IF CeilingSet THEN max_depth ELSE None, bga, 1)

Coordinates(runs) == [k \in 1..Len(runs) |-> <<runs[k].start, runs[k].end>>]

\* C13: every emitted depth is min(rawDepth, depthCeiling) * scale (the raw
\* depth times scale without a ceiling), the coordinates of the runs are
\* those of the unscaled runs, and with scale = 1 the runs are those of the
\* call with no scale passed.
C13_CeilingThenScale ==
    Completed =>
        /\ \A k \in 1..Len(Output) :
              \A x \in Output[k].start..(Output[k].end - 1) :
                  Output[k].depth = Clamped(TrueDepth(x)) * scale
        /\ Coordinates(Output) = Coordinates(UnscaledRuns)
        /\ scale = 1 => Output = UnscaledRuns

C13_Witness ==
    /\ Completed
    /\ max_depth = Some(2) /\ scale = 2 /\ bg /\ strand = "+"
    /\ bam = <<[start |-> 0, end |-> 3, strand |-> "+"],
               [start |-> 1, end |-> 3, strand |-> "+"],
               [start |-> 1, end |-> 2, strand |-> "+"]>>
    /\ Output = <<Run(0, 1, 2), Run(1, 2, 4), Run(2, 3, 4)>>
    /\ UnscaledRuns = <<Run(0, 1, 1), Run(1, 2, 2), Run(2, 3, 2)>>

(***************************************************************************)
(* The order of the events in the sweep.                                   *)
(***************************************************************************)
\* The events of the requested records in the order the sweep applies them,
\* and the running depth after each.
Swept == sort_events(events(Requested))
Running == sweep_depths(Swept, 0)

max(a, b) == IF a >= b THEN a ELSE b

\* C14: the sweep applies the events in coordinate order, the end events of
\* a coordinate before its start events; the running depth is never
\* negative and, at a coordinate P, never above the depth of the position
\* before P or of the position P (no combined depth of a span ending at P
\* and one starting at P); a span ending at P and a span starting at P with
\* no other span over P - 1 or P are written as one run across P.
C14_EndsBeforeStarts ==
    Completed =>
        /\ \A i \in 1..Len(Swept) : \A j \in i..Len(Swept) :
              /\ Swept[i].coord <= Swept[j].coord
              /\ Swept[i].coord = Swept[j].coord => Swept[i].delta <= Swept[j].delta
        /\ \A k \in 1..Len(Running) :
              /\ Running[k] >= 0
              /\ Running[k] <= max(IF Swept[k].coord = 0 THEN 0
                                   ELSE TrueDepth(Swept[k].coord - 1),
                                   TrueDepth(Swept[k].coord))
        /\ \A P \in 1..MaxCoord :
              /\ \E i \in 1..Len(Requested) : Requested[i].end = P
              /\ \E j \in 1..Len(Requested) : Requested[j].start = P
              /\ TrueDepth(P - 1) = 1 /\ TrueDepth(P) = 1
              => \E k \in 1..Len(Output) :
                    Output[k].start <= P - 1 /\ P < Output[k].end

C14_Witness ==
    /\ Completed
    /\ bg /\ strand = "+" /\ max_depth = None /\ scale = 1
    /\ bam = <<[start |-> 2, end |-> 3, strand |-> "+"],
               [start |-> 0, end |-> 2, strand |-> "+"]>>
    /\ Swept = <<Event(0, 1), Event(2, -1), Event(2, 1), Event(3, -1)>>
    /\ Running = <<1, 0, 1, 0>>
    /\ Output = <<Run(0, 3, 1)>>

(***************************************************************************)
(* Which configuration error is reported.                                  *)
(***************************************************************************)
InvalidStrandAt(k) ==
    /\ strands[k] \notin {"+", "-"}
    /\ \A j \in 1..(k - 1) : strands[j] \in {"+", "-"}

\* C15: a failed validation reports one error, the first that applies of:
\* missing input file, invalid library type (naming the label), the first
\* invalid strand in list order (naming it), bg and bga both set, neither
\* set, five_prime and three_prime both set.
C15_Precedence ==
    step = "failed" /\ calls = <<>> =>
        IF ~bam_exists
        THEN error.exc = "FileNotFoundError" /\ error.what = "bam_path"
        ELSE /\ error.exc = "ValueError"
             /\ IF libtype \notin {FORWARD, REVERSE}
                THEN error.what = "libtype" /\ error.value = format(libtype)
                ELSE IF \E k \in 1..Len(strands) : InvalidStrandAt(k)
                THEN /\ error.what = "strand"
                     /\ \E k \in 1..Len(strands) :
                           InvalidStrandAt(k) /\ error.value = strands[k]
                ELSE IF bg /\ bga THEN error.what = "bg and bga"
                ELSE IF ~bg /\ ~bga THEN error.what = "neither bg nor bga"
                ELSE five_prime /\ three_prime
                     /\ error.what = "five_prime and three_prime"

C15_Witness ==
    /\ step = "failed" /\ calls = <<>>
    /\ bam_exists /\ libtype = REVERSE
    /\ strands = <<"-", ".", "invalid">>
    /\ bg /\ bga /\ five_prime /\ three_prime
    /\ error.what = "strand" /\ error.value = "."

(***************************************************************************)
(* A ceiling that is not a positive integer.                               *)
(***************************************************************************)
\* C16 as stated: with max_depth given and not positive the request fails:
\* no pass completes, no file is written and nothing is returned.
C16_NonPositiveCeilingFails ==
    max_depth # None /\ max_depth[1] <= 0 =>
        /\ step # "done"
        /\ ~returned.done
        /\ \A k \in 1..Len(calls) : calls[k].raised
        /\ \A p \in DOMAIN disk : disk[p].state # "complete"

(***************************************************************************)
(* The two strands never share an output path.                             *)
(***************************************************************************)
StrandPaths == {output_prefix \o ".plus.bedgraph", output_prefix \o ".minus.bedgraph"}

\* C17: every pass writes <prefix>.plus.bedgraph or <prefix>.minus.bedgraph;
\* passes of different strands write different paths and passes of the same
\* strand the same path, wherever they stand in the list; once both strands
\* were passed the two paths are both used; and the file a pass left is as it
\* left it unless a later pass of the same strand wrote it again.
C17_DistinctPaths ==
    /\ \A i \in 1..Len(calls) :
          /\ calls[i].path \in StrandPaths
          /\ \A j \in 1..Len(calls) :
                calls[i].strand = calls[j].strand <=> calls[i].path = calls[j].path
          /\ (\A j \in (i + 1)..Len(calls) : calls[j].strand # calls[i].strand) =>
                disk[calls[i].path] = calls[i].written
    /\ {calls[i].strand : i \in 1..Len(calls)} = {"+", "-"} =>
          {calls[i].path : i \in 1..Len(calls)} = StrandPaths

C17_Witness ==
    /\ step = "done"
    /\ libtype = REVERSE /\ output_prefix = ""
    /\ strands = <<"-", "+">>
    /\ calls[1].path = ".plus.bedgraph" /\ calls[2].path = ".minus.bedgraph"
    /\ disk[".plus.bedgraph"] = calls[1].written
    /\ disk[".plus.bedgraph"].state = "complete"
    /\ disk[".minus.bedgraph"].state = "complete"

(***************************************************************************)
(* The passes of a validated invocation meet get_stranded_bedgraph's own   *)
(* preconditions.                                                          *)
(***************************************************************************)
\* The options get_stranded_bedgraph hands to the engine in the k-th pass.
Handed(k) ==
    DOMAIN build_kwargs(calls[k].strand, scale, bg, bga, max_depth,
                        five_prime, three_prime)

\* The messages of get_stranded_bedgraph's own checks.
PreconditionMessages ==
    {"Strand must be '+' or '-'", "bg and bga are mutually exclusive",
     "Either bg or bga must be True", "Cannot specify both five_prime and three_prime"}

\* C18: every pass rnabam2cov makes has a strand in {'+', '-'}, exactly one
\* of bg and bga and at most one of five_prime and three_prime, so none of
\* get_stranded_bedgraph's checks raises, and the options handed to the
\* engine hold exactly one of 'bg'/'bga' and at most one of '5'/'3'.
C18_PreconditionsMet ==
    \A k \in 1..Len(calls) :
        /\ calls[k].strand \in {"+", "-"}
        /\ bg # bga
        /\ ~(five_prime /\ three_prime)
        /\ precondition_error(calls[k].strand, bg, bga, five_prime, three_prime) = NoError
        /\ calls[k].raised => error.what \notin PreconditionMessages
        /\ Cardinality(Handed(k) \cap {"bg", "bga"}) = 1
        /\ Cardinality(Handed(k) \cap {"5", "3"}) <= 1

C18_Witness ==
    /\ step = "done"
    /\ strands = <<"-", "+">>
    /\ bga /\ three_prime /\ max_depth = Some(MaxDepthArg)
    /\ Len(calls) = 2 /\ ~calls[2].raised
    /\ Handed(2) = {"strand", "bga", "max", "3"}

====
